---- MODULE Spec2Model ----
(***************************************************************************)
(* Model of packages/react-storefront/src/Image.js: the image-URL          *)
(* optimizer (setImageOptimizer, createOptimizedSrc) and the Image         *)
(* component's load state machine (constructor, render, componentDidMount, *)
(* handleNotFound, lazyLoad, getOptimizedSrc).                             *)
(*                                                                         *)
(* Strings are sequences of one-character strings, so that concatenation,  *)
(* prefixes and URL encoding are computed rather than assumed.             *)
(***************************************************************************)
EXTENDS Integers, Sequences, FiniteSets, TLC

VARIABLES
  tdz,               \* what the build makes of the read at Image.js:94
  optimizerUrlBase,  \* module-level `let optimizerUrlBase` (Image.js:68)
  lastSet,           \* history: argument of the latest setImageOptimizer call
  call,              \* history: the latest direct createOptimizedSrc call
  props,             \* this.props of the Image instance
  state,             \* this.state of the Image instance
  phase,             \* lifecycle position of the instance
  tree,              \* what the latest render() returned
  renderBase,        \* history: the base URL the latest render of an element read
  snapshot,          \* history: one earlier render, as an observer recorded it
  seenVisible,       \* history: lazyLoad(true) has been delivered
  errorEvents,       \* history: error events delivered, counted up to MaxErrorEvents
  lastOp             \* history: the latest operation and its argument

vars == <<tdz, optimizerUrlBase, lastSet, call, props, state, phase, tree,
          renderBase, snapshot, seenVisible, errorEvents, lastOp>>

---------------------------------------------------------------------------
(* Bounds of the model *)

\* Largest number of own keys of an options object handed to createOptimizedSrc
MaxKeys == 2

\* The count of delivered error events stops at this number
MaxErrorEvents == 2

---------------------------------------------------------------------------
(* JavaScript values: null, undefined, numbers and strings *)

Null == [t |-> "null", n |-> 0, s |-> <<>>]
Undefined == [t |-> "undefined", n |-> 0, s |-> <<>>]
Num(n) == [t |-> "number", n |-> n, s |-> <<>>]
Str(s) == [t |-> "string", n |-> 0, s |-> s]

\* ToBoolean, as applied by `if (options.format)` and `primaryNotFound && notFoundSrc`
Truthy(v) ==
  CASE v.t = "null" -> FALSE
    [] v.t = "undefined" -> FALSE
    [] v.t = "number" -> v.n # 0
    [] v.t = "string" -> v.s # <<>>

\* `x == null` is true of null and of undefined
IsNullish(v) == v.t \in {"null", "undefined"}

Digit(d) == <<"0", "1", "2", "3", "4", "5", "6", "7", "8", "9">>[d + 1]

RECURSIVE Digits(_)
Digits(n) == IF n < 10 THEN <<Digit(n)>> ELSE Digits(n \div 10) \o <<Digit(n % 10)>>

\* String(v) for the values qs serialises
StringOf(v) ==
  CASE v.t = "number" -> Digits(v.n)
    [] v.t = "string" -> v.s
    [] OTHER -> <<>>

---------------------------------------------------------------------------
(* Program constants *)

LEGACY_IMAGE_OPTIMIZER == <<"h","t","t","p","s",":","/","/","o","p","t",".","m","o","o","v","w","e","b",".","n","e","t">>
RESPONSIVE_IMAGE_OPTIMIZER == <<"h","t","t","p","s",":","/","/","o","p","t","i","m","i","z","e",".","m","o","o","v","w","e","b",".","n","e","t","/","i","m","g">>
LOCAL_IMAGE_OPTIMIZER == <<"h","t","t","p",":","/","/","l","o","c","a","l","h","o","s","t",":","8","0","9","0","/","i","m","g">>

K_format == <<"f","o","r","m","a","t">>
K_fmt == <<"f","m","t">>
K_img == <<"i","m","g">>
K_quality == <<"q","u","a","l","i","t","y">>
K_width == <<"w","i","d","t","h">>

---------------------------------------------------------------------------
(* JavaScript objects: own enumerable keys in insertion order *)

\* An object is a sequence of [k, v] entries with distinct keys
HasKey(o, k) == \E i \in 1..Len(o) : o[i].k = k

\* o[k]: undefined when k is not an own key
Get(o, k) ==
  IF HasKey(o, k) THEN o[CHOOSE i \in 1..Len(o) : o[i].k = k].v ELSE Undefined

\* o[k] = v: an existing key keeps its position, a new key goes last
Put(o, k, v) ==
  IF HasKey(o, k)
  THEN [i \in 1..Len(o) |-> IF o[i].k = k THEN [k |-> k, v |-> v] ELSE o[i]]
  ELSE Append(o, [k |-> k, v |-> v])

\* Object.keys(o)
ObjectKeys(o) == [i \in 1..Len(o) |-> o[i].k]

\* A function argument that is an object, null, or absent (undefined)
ObjArg(o) == [t |-> "object", o |-> o]
NullArg == [t |-> "null", o |-> <<>>]
UndefArg == [t |-> "undefined", o |-> <<>>]

\* { ...x }: null and undefined spread to no keys
ObjectSpread(x) == IF x.t = "object" THEN x.o ELSE <<>>

---------------------------------------------------------------------------
(* qs.stringify with its default options *)

\* The printable ASCII characters in code order: from the space (32) to "_"
\* (95), and from "a" (97) to "~" (126). The grave accent (96) cannot be
\* written in a string of this language and is left out.
AsciiTo95 ==
  <<" ", "!", "\"", "#", "$", "%", "&", "'", "(", ")", "*", "+",
    ",", "-", ".", "/", "0", "1", "2", "3", "4", "5", "6", "7",
    "8", "9", ":", ";", "<", "=", ">", "?", "@", "A", "B", "C",
    "D", "E", "F", "G", "H", "I", "J", "K", "L", "M", "N", "O",
    "P", "Q", "R", "S", "T", "U", "V", "W", "X", "Y", "Z", "[",
    "\\", "]", "^", "_">>

AsciiFrom97 ==
  <<"a", "b", "c", "d", "e", "f", "g", "h", "i", "j", "k", "l",
    "m", "n", "o", "p", "q", "r", "s", "t", "u", "v", "w", "x",
    "y", "z", "{", "|", "}", "~">>

\* The code of an ASCII character, as charCodeAt gives it
CharCode(c) ==
  CASE c = "\t" -> 9
    [] c = "\n" -> 10
    [] c = "\f" -> 12
    [] c = "\r" -> 13
    [] \E i \in 1..Len(AsciiTo95) : AsciiTo95[i] = c ->
         31 + (CHOOSE i \in 1..Len(AsciiTo95) : AsciiTo95[i] = c)
    [] \E i \in 1..Len(AsciiFrom97) : AsciiFrom97[i] = c ->
         96 + (CHOOSE i \in 1..Len(AsciiFrom97) : AsciiFrom97[i] = c)

\* One upper-case hexadecimal digit
HexDigit(n) ==
  <<"0", "1", "2", "3", "4", "5", "6", "7", "8", "9", "A", "B", "C", "D", "E", "F">>[n + 1]

\* The characters the encoder leaves as they are: - . _ ~, digits and letters
Unreserved(c) ==
  \/ c \in {"-", ".", "_", "~"}
  \/ CharCode(c) \in 48..57
  \/ CharCode(c) \in 65..90
  \/ CharCode(c) \in 97..122

\* Percent-encoding of one ASCII character: unreserved characters stay as they
\* are, every other one becomes % and the two hexadecimal digits of its code
PercentEncoded(c) ==
  IF Unreserved(c) THEN <<c>>
  ELSE <<"%", HexDigit(CharCode(c) \div 16), HexDigit(CharCode(c) % 16)>>

\* The characters with a code above: the two ranges and the four controls
AsciiChars ==
  {AsciiTo95[i] : i \in 1..Len(AsciiTo95)} \cup
  {AsciiFrom97[i] : i \in 1..Len(AsciiFrom97)} \cup {"\t", "\n", "\f", "\r"}

\* The encoder's output for each character, as a table computed once
EncodeTable == [c \in AsciiChars |-> PercentEncoded(c)]

EncodeChar(c) == EncodeTable[c]

RECURSIVE Encode(_)
Encode(s) == IF s = <<>> THEN <<>> ELSE EncodeChar(Head(s)) \o Encode(Tail(s))

\* One key: undefined is skipped, null is serialised as the empty string
StringifyEntry(e) ==
  IF e.v.t = "undefined" THEN <<>>
  ELSE <<Encode(e.k) \o <<"=">> \o Encode(StringOf(e.v))>>

\* The key=value parts, in key order
RECURSIVE StringifyParts(_)
StringifyParts(o) ==
  IF o = <<>> THEN <<>> ELSE StringifyEntry(Head(o)) \o StringifyParts(Tail(o))

RECURSIVE Join(_)
Join(parts) ==
  IF parts = <<>> THEN <<>>
  ELSE IF Len(parts) = 1 THEN Head(parts)
  ELSE Head(parts) \o <<"&">> \o Join(Tail(parts))

qsStringify(o) == Join(StringifyParts(o))

---------------------------------------------------------------------------
(* The URL optimizer *)

\* Outcome of a call: a returned string or a thrown error, with the caller's
\* options argument as the call leaves it
Return(value, after) == [kind |-> "return", value |-> value, err |-> "", after |-> after]
Throw(err, after) == [kind |-> "throw", value |-> <<>>, err |-> err, after |-> after]

\* Builds: `const options = { ...options, img: src }` reads the block-scoped
\* `options` inside its own initialiser. A build that keeps `const` throws a
\* ReferenceError there; a build that lowers it to `var` reads undefined.
TdzOutcomes == {"ReferenceError", "undefined"}

\* Mutant: the assignment is lost, the base stays what it was
setImageOptimizer_lost(url) == optimizerUrlBase

\* export function setImageOptimizer(url)
setImageOptimizer(url) == url

\* export function createOptimizedSrc(src, options = {})
createOptimizedSrc(src, arg, base, build) ==
  IF arg.t = "null"
  THEN Throw("TypeError", arg)                  \* options.format of null
  ELSE
    LET options == IF arg.t = "undefined" THEN <<>> ELSE arg.o
        format == Get(options, K_format)
        \* if (options.format) options.fmt = options.format
        assigned == IF Truthy(format) THEN Put(options, K_fmt, format) ELSE options
        after == IF arg.t = "undefined" THEN arg ELSE ObjArg(assigned)
    IN IF Len(ObjectKeys(assigned)) > 0
       THEN IF build = "ReferenceError"
            THEN Throw("ReferenceError", after)
            ELSE LET inner == Put(ObjectSpread(UndefArg), K_img, Str(src))
                 IN Return(base \o <<"/", "?">> \o qsStringify(inner), after)
       ELSE Return(src, after)

---------------------------------------------------------------------------
(* The Image component *)

\* static defaultProps, with the props that have no default left undefined
defaultProps ==
  [src |-> Undefined, notFoundSrc |-> Undefined, aspectRatio |-> Undefined,
   quality |-> Null, contain |-> FALSE, fill |-> FALSE, lazy |-> FALSE,
   optimize |-> <<>>, amp |-> FALSE]

\* Mutant: `loaded: !lazy && amp`
constructor_and(lazy, amp) == [loaded |-> (~lazy) /\ amp, primaryNotFound |-> FALSE]

\* constructor({ lazy, amp }): the initial this.state
constructor(lazy, amp) == [loaded |-> (~lazy) \/ amp, primaryNotFound |-> FALSE]

\* Mutant: `{ quality, ...optimize }`, the spread written last
optimizerOptions_spreadLast(p) ==
  LET o == p.optimize
      start == <<[k |-> K_quality, v |-> p.quality]>>
      put[i \in 0..Len(o)] == IF i = 0 THEN start ELSE Put(put[i - 1], o[i].k, o[i].v)
  IN put[Len(o)]

\* The object literal `{ ...optimize, quality }` of getOptimizedSrc
optimizerOptions(p) == Put(ObjectSpread(ObjArg(p.optimize)), K_quality, p.quality)

\* getOptimizedSrc(): createOptimizedSrc(src, { ...optimize, quality })
getOptimizedSrc(p, base, build) ==
  createOptimizedSrc(p.src.s, ObjArg(optimizerOptions(p)), base, build)

\* Mutant: props.optimize itself is given the quality and passed to the call
optimizeAfterRender_alias(p, base, build) ==
  IF IsNullish(p.src) THEN p.optimize
  ELSE createOptimizedSrc(p.src.s, ObjArg(Put(p.optimize, K_quality, p.quality)),
                          base, build).after.o

\* props.optimize after a render: the object literal is a new object, so the
\* write to options.fmt inside createOptimizedSrc does not reach it
optimizeAfterRender(p, base, build) == p.optimize

\* Mutant: aspectRatio is not looked at
ampLayout_noAspect(p) == IF p.contain \/ p.fill THEN "fill" ELSE "intrinsic"

\* ampLayout()
ampLayout(p) ==
  IF p.contain \/ p.fill \/ Truthy(p.aspectRatio) THEN "fill" ELSE "intrinsic"

NotRendered ==
  [kind |-> "none", src |-> <<>>, img |-> FALSE, ampImg |-> FALSE, padding |-> FALSE,
   layout |-> "null", sensor |-> FALSE, active |-> FALSE, contain |-> FALSE,
   fill |-> FALSE]

\* Mutant: the fallback is never substituted
renderedSrc_primary(p, st, optimized) == optimized

\* Mutant: in AMP mode the src prop is rendered as it is
renderedSrc_ampRaw(p, st, optimized) ==
  IF p.amp THEN p.src.s
  ELSE IF st.primaryNotFound /\ Truthy(p.notFoundSrc) THEN p.notFoundSrc.s
  ELSE optimized

\* Mutant: the fallback is substituted only once the image is loaded
renderedSrc_whenLoaded(p, st, optimized) ==
  IF st.primaryNotFound /\ Truthy(p.notFoundSrc) /\ st.loaded
  THEN p.notFoundSrc.s ELSE optimized

\* render(), lines 224-228: the optimized src, or notFoundSrc as it is
renderedSrc(p, st, optimized) ==
  IF st.primaryNotFound /\ Truthy(p.notFoundSrc) THEN p.notFoundSrc.s ELSE optimized

\* Mutant: the <img> is rendered whether loaded or not
imgPresent_always(p, st) == ~p.amp

\* Mutant: the element with the ref and onError is rendered in AMP mode too
imgPresent_amp(p, st) == st.loaded

\* render(), lines 252-263: `amp ? <amp-img/> : loaded && <img/>`
imgPresent(p, st) == (~p.amp) /\ st.loaded

\* Mutant: the sensor stays active
sensorActive_always(st) == TRUE

\* render(), line 270: active={!loaded}
sensorActive(st) == ~st.loaded

\* render(): "null" when src is missing, "threw" when getOptimizedSrc throws,
\* otherwise the element tree: the container, the padding box, the <img> or
\* <amp-img>, and the VisibilitySensor wrapper
render(p, st, base, build) ==
  IF IsNullish(p.src) THEN [NotRendered EXCEPT !.kind = "null"]
  ELSE
    LET optimized == getOptimizedSrc(p, base, build)
    IN IF optimized.kind = "throw" THEN [NotRendered EXCEPT !.kind = "threw"]
       ELSE
         [kind |-> "element",
          src |-> renderedSrc(p, st, optimized.value),
          img |-> imgPresent(p, st),
          ampImg |-> p.amp,
          padding |-> Truthy(p.aspectRatio),
          layout |-> IF p.amp THEN ampLayout(p) ELSE "null",
          sensor |-> (~p.amp) /\ p.lazy,
          active |-> sensorActive(st),
          contain |-> p.contain \/ Truthy(p.aspectRatio),
          fill |-> p.fill]

\* this.ref.current after a commit: the <img> element, or null
NoImg == [present |-> FALSE, complete |-> FALSE, naturalWidth |-> 0]
ImgElement(complete, naturalWidth) ==
  [present |-> TRUE, complete |-> complete, naturalWidth |-> naturalWidth]

\* Mutant: the flag is toggled instead of set
handleNotFound_toggle(st) == [st EXCEPT !.primaryNotFound = ~st.primaryNotFound]

\* handleNotFound: this.setState({ primaryNotFound: true })
handleNotFound(st) == [st EXCEPT !.primaryNotFound = TRUE]

\* lazyLoad(visible): whether it calls setState, and the state it leaves
lazyLoadSets(st, visible) == (~st.loaded) /\ visible

\* Mutant: `this.setState({ loaded: visible })` on every event
lazyLoad_follow(st, visible) == [st EXCEPT !.loaded = visible]

\* Mutant: the guard reads `this.state.loaded && visible`
lazyLoad_guard(st, visible) == IF st.loaded /\ visible THEN [st EXCEPT !.loaded = TRUE] ELSE st

\* Mutant: loading also clears primaryNotFound
lazyLoad_resets(st, visible) ==
  IF lazyLoadSets(st, visible)
  THEN [st EXCEPT !.loaded = TRUE, !.primaryNotFound = FALSE] ELSE st

lazyLoad(st, visible) ==
  IF lazyLoadSets(st, visible) THEN [st EXCEPT !.loaded = TRUE] ELSE st

\* Mutant: img.complete is not looked at
mountCheckFails_incomplete(img) == img.present /\ img.naturalWidth = 0

\* componentDidMount(): whether it calls handleNotFound, and the state it leaves
mountCheckFails(img) == img.present /\ img.complete /\ img.naturalWidth = 0
componentDidMount(st, img) == IF mountCheckFails(img) THEN handleNotFound(st) ELSE st

---------------------------------------------------------------------------
(* Inputs *)

SrcA == <<"/", "a">>
SrcB == <<"x", ":", "+", "b">>
NotFoundA == <<"/", "n", "f">>
webp == <<"w", "e", "b", "p">>

\* src arguments of direct createOptimizedSrc calls: a path, a string with
\* reserved characters, empty
SrcInputs == {SrcA, SrcB, <<>>}

BaseUrls == {LEGACY_IMAGE_OPTIMIZER, RESPONSIVE_IMAGE_OPTIMIZER, LOCAL_IMAGE_OPTIMIZER}

OptionKeys == {K_format, K_quality, K_width, K_img}
OptionValues == {Null, Num(80), Str(webp), Str(<<>>)}
OptionEntries == [k : OptionKeys, v : OptionValues]

\* Objects of n keys: distinct keys, every insertion order
ObjectsOf(n) ==
  {o \in [1..n -> OptionEntries] : \A i, j \in 1..n : o[i].k = o[j].k => i = j}

\* options arguments: absent, null, and every object of at most MaxKeys keys
OptionsInputs ==
  {UndefArg, NullArg} \cup {ObjArg(o) : o \in UNION {ObjectsOf(n) : n \in 0..MaxKeys}}

OptimizeInputs ==
  {<<>>, <<[k |-> K_format, v |-> Str(webp)]>>, <<[k |-> K_quality, v |-> Num(50)]>>}

PropsInputs ==
  {[defaultProps EXCEPT !.src = s, !.notFoundSrc = nf, !.aspectRatio = ar,
                        !.quality = q, !.contain = c, !.fill = f, !.lazy = l,
                        !.optimize = o, !.amp = a] :
     s \in {Undefined, Str(SrcA)}, nf \in {Undefined, Str(NotFoundA)},
     ar \in {Undefined, Num(50)}, q \in {Null, Num(80)}, c \in BOOLEAN,
     f \in BOOLEAN, l \in BOOLEAN, o \in OptimizeInputs, a \in BOOLEAN}

NaturalWidths == {0, 100}

---------------------------------------------------------------------------
(* State machine *)

\* A caller of createOptimizedSrc: the src it passes, the options argument as
\* it first built it, the same argument as it is now, and the latest outcome
Caller(src, arg) ==
  [src |-> src, given |-> arg, options |-> arg, made |-> FALSE,
   result |-> [kind |-> "none", value |-> <<>>, err |-> ""]]

CallerInputs == {Caller(src, arg) : src \in SrcInputs, arg \in OptionsInputs}

\* A few callers, for the runs that interleave calls with the component
FewCallerInputs ==
  {Caller(SrcA, UndefArg), Caller(SrcB, ObjArg(<<>>)),
   Caller(SrcA, ObjArg(<<[k |-> K_quality, v |-> Num(80)]>>)),
   Caller(SrcB, ObjArg(<<[k |-> K_format, v |-> Str(webp)]>>))}

Op(name) == [op |-> name, visible |-> FALSE, img |-> NoImg]

NoSnapshot ==
  [made |-> FALSE, props |-> defaultProps, primaryNotFound |-> FALSE,
   base |-> <<>>, src |-> <<>>]

InitWith(p, c) ==
  /\ tdz \in TdzOutcomes
  /\ optimizerUrlBase = LEGACY_IMAGE_OPTIMIZER
  /\ lastSet = <<>>
  /\ call = c
  /\ props = p
  /\ state = constructor(p.lazy, p.amp)
  /\ phase = "constructed"
  /\ tree = NotRendered
  /\ renderBase = <<>>
  /\ snapshot = NoSnapshot
  /\ seenVisible = FALSE
  /\ errorEvents = 0
  /\ lastOp = Op("constructor")

LazyProps == [defaultProps EXCEPT !.src = Str(SrcA), !.lazy = TRUE]

\* Instances that render an element, for the runs that compare renders: eager,
\* lazy and AMP ones (lazy and amp together behave as amp alone)
RenderModes == {<<FALSE, FALSE>>, <<TRUE, FALSE>>, <<FALSE, TRUE>>}

RenderPropsInputs ==
  {[defaultProps EXCEPT !.src = Str(SrcA), !.notFoundSrc = nf, !.quality = q,
                        !.lazy = m[1], !.amp = m[2]] :
     nf \in {Undefined, Str(NotFoundA)}, q \in {Null, Num(80)}, m \in RenderModes}

InitRenders == \E p \in RenderPropsInputs : InitWith(p, Caller(<<>>, UndefArg))

\* An instance constructed with any props
Init == \E p \in PropsInputs : InitWith(p, Caller(<<>>, UndefArg))

\* A caller with any src and options
InitOpt == \E c \in CallerInputs : InitWith(defaultProps, c)

\* A lazy instance beside a caller
InitAll == \E c \in FewCallerInputs : InitWith(LazyProps, c)

\* setImageOptimizer(url)
SetImageOptimizer ==
  \E url \in BaseUrls :
    /\ optimizerUrlBase' = setImageOptimizer(url)
    /\ lastSet' = <<url>>
    /\ lastOp' = Op("setImageOptimizer")
    /\ UNCHANGED <<tdz, call, props, state, phase, tree, renderBase, snapshot,
                   seenVisible, errorEvents>>

\* createOptimizedSrc(src, options), the caller passing its options object
CallCreateOptimizedSrc ==
  LET r == createOptimizedSrc(call.src, call.options, optimizerUrlBase, tdz)
  IN /\ call' = [call EXCEPT !.options = r.after, !.made = TRUE,
                              !.result = [kind |-> r.kind, value |-> r.value,
                                          err |-> r.err]]
     /\ lastOp' = Op("createOptimizedSrc")
     /\ UNCHANGED <<tdz, optimizerUrlBase, lastSet, props, state, phase, tree,
                    renderBase, snapshot, seenVisible, errorEvents>>

\* The state after a handler: setState merges, and a setState call re-renders
Commit(st, setStateCalled, next) ==
  /\ state' = st
  /\ tree' = IF setStateCalled THEN render(props, st, optimizerUrlBase, tdz) ELSE tree
  /\ props' = IF setStateCalled
              THEN [props EXCEPT !.optimize = optimizeAfterRender(props, optimizerUrlBase, tdz)]
              ELSE props
  /\ renderBase' = IF setStateCalled /\ tree'.kind = "element"
                   THEN optimizerUrlBase ELSE renderBase
  /\ phase' = IF tree'.kind = "threw" THEN "crashed" ELSE next

\* The initial render and its commit
InitialRender ==
  /\ phase = "constructed"
  /\ Commit(state, TRUE, "rendered")
  /\ lastOp' = Op("render")
  /\ UNCHANGED <<tdz, optimizerUrlBase, lastSet, call, snapshot, seenVisible, errorEvents>>

\* componentDidMount, once, after the initial commit
ComponentDidMount ==
  /\ phase = "rendered"
  /\ \E complete \in BOOLEAN, naturalWidth \in NaturalWidths :
       LET img == IF tree.img THEN ImgElement(complete, naturalWidth) ELSE NoImg
       IN /\ Commit(componentDidMount(state, img), mountCheckFails(img), "mounted")
          /\ lastOp' = [Op("componentDidMount") EXCEPT !.img = img]
  /\ UNCHANGED <<tdz, optimizerUrlBase, lastSet, call, snapshot, seenVisible, errorEvents>>

\* An error event: handleNotFound
ErrorEvent ==
  /\ phase = "mounted"
  /\ Commit(handleNotFound(state), TRUE, "mounted")
  /\ lastOp' = Op("handleNotFound")
  /\ errorEvents' = IF errorEvents < MaxErrorEvents THEN errorEvents + 1 ELSE errorEvents
  /\ UNCHANGED <<tdz, optimizerUrlBase, lastSet, call, snapshot, seenVisible>>

\* A visibility event: lazyLoad(visible)
VisibilityEvent ==
  /\ phase = "mounted"
  /\ \E visible \in BOOLEAN :
       /\ Commit(lazyLoad(state, visible), lazyLoadSets(state, visible), "mounted")
       /\ seenVisible' = (seenVisible \/ visible)
       /\ lastOp' = [Op("lazyLoad") EXCEPT !.visible = visible]
  /\ UNCHANGED <<tdz, optimizerUrlBase, lastSet, call, snapshot, errorEvents>>

\* An error event as the host delivers it: by the rendered <img>, through onError
HostErrorEvent ==
  /\ tree.img
  /\ ErrorEvent

\* A visibility event as the host delivers it: by the VisibilitySensor that
\* wraps the output, while it is active
HostVisibilityEvent ==
  /\ tree.sensor
  /\ tree.active
  /\ VisibilityEvent

\* An observer reads the rendered src, once, at any time after a render, with
\* the props and the primaryNotFound of the instance that rendered it
ObserveRender ==
  /\ tree.kind = "element"
  /\ ~snapshot.made
  /\ snapshot' = [made |-> TRUE, props |-> props,
                  primaryNotFound |-> state.primaryNotFound,
                  base |-> renderBase, src |-> tree.src]
  /\ UNCHANGED <<tdz, optimizerUrlBase, lastSet, call, props, state, phase, tree,
                 renderBase, seenVisible, errorEvents, lastOp>>

\* Another instance is constructed, with any props, in place of the one whose
\* render was observed; optimizerUrlBase is the module's and stays as it is
ConstructAnother ==
  /\ snapshot.made
  /\ props = snapshot.props
  /\ phase # "constructed"
  /\ \E p \in RenderPropsInputs :
       /\ props' = p
       /\ state' = constructor(p.lazy, p.amp)
  /\ phase' = "constructed"
  /\ tree' = NotRendered
  /\ renderBase' = <<>>
  /\ seenVisible' = FALSE
  /\ errorEvents' = 0
  /\ lastOp' = Op("constructor")
  /\ UNCHANGED <<tdz, optimizerUrlBase, lastSet, call, snapshot>>

Next ==
  \/ SetImageOptimizer
  \/ InitialRender
  \/ ComponentDidMount
  \/ ErrorEvent
  \/ VisibilityEvent

NextOpt ==
  \/ SetImageOptimizer
  \/ CallCreateOptimizedSrc

NextAll ==
  \/ CallCreateOptimizedSrc
  \/ Next

NextHost ==
  \/ SetImageOptimizer
  \/ InitialRender
  \/ ComponentDidMount
  \/ HostErrorEvent
  \/ HostVisibilityEvent

NextRenders ==
  \/ ObserveRender
  \/ ConstructAnother
  \/ Next

\* The component, constructed with any props, under any order of events
Spec == Init /\ [][Next]_vars

\* The component with its events delivered as the host delivers them
SpecHost == Init /\ [][NextHost]_vars

\* Any order of events and any sequence of instances, with an observer that
\* records one render to compare later ones with
SpecRenders == InitRenders /\ [][NextRenders]_vars

\* The optimizer, called with any arguments between any setter calls
SpecOpt == InitOpt /\ [][NextOpt]_vars

\* Setter calls, optimizer calls and the component's transitions interleaved
SpecAll == InitAll /\ [][NextAll]_vars

---------------------------------------------------------------------------
(* The load state machine: claims C1 to C4, under Spec *)

\* C1: once state.loaded is true it is true in every later state: no
\* transition (mount check, error event, visibility event with any isVisible)
\* takes loaded from true to false.
C1_LoadedLatch == [][state.loaded => state'.loaded]_vars

\* loaded was false at construction and became true; an error event and then
\* a visibility event with isVisible = false have been handled since
C1_Witness ==
  /\ props.lazy /\ ~props.amp
  /\ state.loaded
  /\ errorEvents > 0
  /\ lastOp = [Op("lazyLoad") EXCEPT !.visible = FALSE]

\* C2: after an error event primaryNotFound is true, a second or later error
\* event leaves it true, and no transition ever resets it to false.
C2_NotFoundLatch ==
  /\ [](errorEvents > 0 => state.primaryNotFound)
  /\ [][state.primaryNotFound => state'.primaryNotFound]_vars

\* two error events have been handled, then a visibility event
C2_Witness ==
  /\ errorEvents = MaxErrorEvents
  /\ state.primaryNotFound
  /\ lastOp.op = "lazyLoad"

\* C3: an instance constructed with lazy = true and amp = false starts with
\* loaded = false; once a visibility event with isVisible = true has been
\* handled loaded is true, also after later events with isVisible = false.
C3_LazyLoads ==
  (props.lazy /\ ~props.amp) =>
    /\ (phase = "constructed" => ~state.loaded)
    /\ (seenVisible => state.loaded)

\* a lazy instance got isVisible = true and then isVisible = false
C3_Witness ==
  /\ props.lazy /\ ~props.amp
  /\ seenVisible
  /\ lastOp = [Op("lazyLoad") EXCEPT !.visible = FALSE]
  /\ state.loaded

\* C4: the state after construction is loaded = (!lazy || amp) and
\* primaryNotFound = false, for every pair (lazy, amp).
C4_InitialState ==
  phase = "constructed" =>
    /\ state.loaded = ((~props.lazy) \/ props.amp)
    /\ state.primaryNotFound = FALSE
    /\ (~props.lazy => state.loaded)
    /\ (props.amp => state.loaded)

\* a lazy instance in AMP mode, just constructed, is loaded
C4_Witness == phase = "constructed" /\ props.lazy /\ props.amp /\ state.loaded

---------------------------------------------------------------------------
(* The URL optimizer: claims C5 to C9, under SpecOpt *)

HasPrefix(s, pre) == Len(s) >= Len(pre) /\ SubSeq(s, 1, Len(pre)) = pre

\* The segments of s between occurrences of the character sep
RECURSIVE SplitOn(_, _)
SplitOn(s, sep) ==
  IF \A i \in 1..Len(s) : s[i] # sep THEN <<s>>
  ELSE LET i == CHOOSE j \in 1..Len(s) : s[j] = sep /\ \A h \in 1..(j - 1) : s[h] # sep
       IN <<SubSeq(s, 1, i - 1)>> \o SplitOn(SubSeq(s, i + 1, Len(s)), sep)

\* The key=value parameters of a URL: what follows its first "?"
QueryParams(url) ==
  LET q == SplitOn(url, "?")
  IN IF Len(q) < 2 THEN {}
     ELSE LET parts == SplitOn(q[2], "&") IN {parts[i] : i \in 1..Len(parts)}

ParamKey(param) == SplitOn(param, "=")[1]
Param(k, v) == Encode(k) \o <<"=">> \o Encode(StringOf(v))

\* The call just made returned a string
Returned == call.result.kind = "return"

\* The latest operation is a call, so the base it read is the current one
JustCalled == lastOp.op = "createOptimizedSrc"

\* C5: with zero recognized keys (quality null or absent, no width, height or
\* format), as in the options the component builds from its default props,
\* the optimized URL is src unchanged.
C5_NoOptionsReturnsSrc ==
  (call.made /\ call.given \in {UndefArg, ObjArg(<<>>),
                                ObjArg(<<[k |-> K_quality, v |-> Null]>>)})
    => (Returned /\ call.result.value = call.src)

\* C6: with one or more own keys the result is the base URL, "/?", and the
\* serialization of the caller's options merged with img = src: every option
\* the caller gave is a key=value parameter, and img carries the src.
C6_OptionsSerialized ==
  (JustCalled /\ call.given.t = "object" /\ Len(call.given.o) > 0)
    => /\ Returned
       /\ HasPrefix(call.result.value, optimizerUrlBase \o <<"/", "?">>)
       /\ \A i \in 1..Len(call.given.o) :
            LET e == call.given.o[i]
            IN e.k # K_img => Param(e.k, e.v) \in QueryParams(call.result.value)
       /\ \A param \in QueryParams(call.result.value) :
            ParamKey(param) = K_img => param = Param(K_img, Str(call.src))
       /\ Param(K_img, Str(call.src)) \in QueryParams(call.result.value)

\* C7: when format is set, the query string has the parameter fmt=<format>
\* and no parameter whose key is format.
C7_FormatBecomesFmt ==
  (JustCalled /\ call.given.t = "object" /\ Truthy(Get(call.given.o, K_format)))
    => /\ Returned
       /\ Param(K_fmt, Get(call.given.o, K_format)) \in QueryParams(call.result.value)
       /\ \A param \in QueryParams(call.result.value) : ParamKey(param) # K_format

\* C8: the call leaves the caller's options object with the keys and values
\* it had before the call.
C8_OptionsNotMutated == call.made => call.options = call.given

\* C9: the call raises no exception, whatever the options argument: it
\* completes with a string.
C9_NeverThrows == call.made => Returned

---------------------------------------------------------------------------
(* The process-wide base URL: claim C10, under SpecAll *)

\* The argument of the latest setter call, or the default when there was none
LastWrite == IF lastSet = <<>> THEN LEGACY_IMAGE_OPTIMIZER ELSE lastSet[1]

\* C10: the base URL is the default until setImageOptimizer is called and
\* then the argument of the latest setImageOptimizer call; no optimizer call
\* and no transition of the component changes it; a createOptimizedSrc call
\* or a render that returns an optimizer URL prefixes it with that base.
C10_BaseIsLastWrite ==
  /\ optimizerUrlBase = LastWrite
  /\ (JustCalled /\ Returned /\ call.options.t = "object" /\ Len(call.options.o) > 0)
       => HasPrefix(call.result.value, LastWrite \o <<"/", "?">>)
  /\ (lastOp.op \in {"render", "handleNotFound"} /\ tree.kind = "element")
       => HasPrefix(tree.src, LastWrite \o <<"/", "?">>)

\* the setter was called with a non-default base, the component has mounted,
\* and a call made since took the optimizer path
C10_Witness ==
  /\ lastSet = <<LOCAL_IMAGE_OPTIMIZER>>
  /\ phase = "mounted"
  /\ JustCalled /\ Returned
  /\ call.options.t = "object" /\ Len(call.options.o) > 0
  /\ HasPrefix(call.result.value, LOCAL_IMAGE_OPTIMIZER \o <<"/", "?">>)

---------------------------------------------------------------------------
(* What is rendered: claims C11 to C14 *)

\* C11: outside AMP mode the <img> element is in the rendered tree only when
\* loaded is true; while loaded is false the tree holds the container and the
\* aspect-ratio padding box, if any, and no image element. Under Spec.
C11_ImgOnlyWhenLoaded ==
  (~props.amp /\ tree.kind = "element") =>
    /\ (tree.img => state.loaded)
    /\ (~state.loaded =>
          (~tree.img /\ ~tree.ampImg /\ tree.padding = Truthy(props.aspectRatio)))

\* a pending lazy instance with an aspect ratio: the padding box and no <img>
C11_Witness ==
  /\ ~props.amp /\ tree.kind = "element"
  /\ ~state.loaded /\ ~tree.img /\ tree.padding

\* The render shows the fallback: primaryNotFound is set and notFoundSrc given
ShowsFallback ==
  tree.kind = "element" /\ state.primaryNotFound /\ Truthy(props.notFoundSrc)

\* C12 as claimed: when primaryNotFound is true and notFoundSrc is set, the
\* rendered URL is the optimizer's output for notFoundSrc.
C12_FallbackOptimized ==
  ShowsFallback =>
    \E b \in BaseUrls :
      LET r == createOptimizedSrc(props.notFoundSrc.s, ObjArg(optimizerOptions(props)),
                                  b, tdz)
      IN r.kind = "return" /\ tree.src = r.value

\* C12, amended: when primaryNotFound is true and notFoundSrc is set, the
\* rendered URL is the notFoundSrc prop as it is, not passed through the
\* optimizer. Under Spec.
C12_FallbackRaw == ShowsFallback => tree.src = props.notFoundSrc.s

\* an <img> is rendered with the fallback URL after an error event
C12_Witness == ShowsFallback /\ tree.img /\ errorEvents > 0 /\ tree.src = NotFoundA

\* The current render and the recorded one, of the same instance or of two,
\* agree on src, notFoundSrc, quality, optimize and primaryNotFound
SameFive ==
  /\ snapshot.made /\ tree.kind = "element"
  /\ snapshot.props.src = props.src
  /\ snapshot.props.notFoundSrc = props.notFoundSrc
  /\ snapshot.props.quality = props.quality
  /\ snapshot.props.optimize = props.optimize
  /\ snapshot.primaryNotFound = state.primaryNotFound

\* C13 as claimed: two renders that agree on src, notFoundSrc, quality,
\* optimize and primaryNotFound give the same URL, whatever setImageOptimizer
\* calls lie between them.
C13_UrlPureInFive == SameFive => tree.src = snapshot.src

\* C13, amended: two renders, of one instance or of two, that agree on src,
\* notFoundSrc, quality, optimize and primaryNotFound, and on the optimizer
\* base URL each of them read, give the same URL. Under SpecRenders.
C13_UrlPureInFiveAndBase ==
  (SameFive /\ snapshot.base = renderBase) => tree.src = snapshot.src

\* a render was recorded, the setter was called, and an instance with other
\* amp and lazy props but the same five values has rendered with the same base
C13_Witness ==
  /\ SameFive /\ snapshot.base = renderBase
  /\ lastSet # <<>>
  /\ snapshot.props.amp # props.amp
  /\ snapshot.props.lazy # props.lazy

\* C14: in AMP mode the layout hint is "fill" when contain, fill or
\* aspectRatio is set and "intrinsic" otherwise; outside AMP mode it is null.
\* Under Spec.
C14_AmpLayout ==
  tree.kind = "element" =>
    tree.layout = IF props.amp
                  THEN IF props.contain \/ props.fill \/ Truthy(props.aspectRatio)
                       THEN "fill" ELSE "intrinsic"
                  ELSE "null"

\* an AMP render with only aspectRatio set has the layout hint "fill"
C14_Witness ==
  /\ props.amp /\ tree.kind = "element" /\ tree.layout = "fill"
  /\ ~props.contain /\ ~props.fill

---------------------------------------------------------------------------
(* Events and their delivery: claims C15 to C19 *)

\* C15: the VisibilitySensor wraps the output exactly when !amp && lazy and is
\* active exactly when loaded is false; so once loaded is true no visibility
\* event is delivered, and an instance with lazy = false or in AMP mode never
\* gets one. Under SpecHost.
C15_SensorStopsWhenLoaded ==
  /\ tree.kind = "element" =>
       /\ tree.sensor = ((~props.amp) /\ props.lazy)
       /\ tree.active = ~state.loaded
  /\ state.loaded => ~ENABLED HostVisibilityEvent
  /\ ((~props.lazy) \/ props.amp) =>
       /\ ~ENABLED HostVisibilityEvent
       /\ lastOp.op # "lazyLoad"
       /\ ~seenVisible

\* a lazy instance has loaded on a visibility event: its sensor is inactive
C15_Witness ==
  /\ props.lazy /\ ~props.amp /\ phase = "mounted"
  /\ seenVisible /\ state.loaded
  /\ tree.sensor /\ ~tree.active

\* C16: a visibility event changes the state only when loaded is false and
\* isVisible is true, and then only sets loaded; otherwise the state is as it
\* was, and primaryNotFound is never changed by it. An error event and the
\* mount check never change loaded. Under Spec.
C16_EventFrames ==
  [][/\ lastOp'.op = "lazyLoad" =>
          state' = IF (~state.loaded) /\ lastOp'.visible
                   THEN [loaded |-> TRUE, primaryNotFound |-> state.primaryNotFound]
                   ELSE state
     /\ lastOp'.op \in {"handleNotFound", "componentDidMount"} =>
          state'.loaded = state.loaded]_vars

\* an instance whose error event came while it was pending has then loaded on
\* a visibility event, primaryNotFound kept
C16_Witness ==
  /\ props.lazy /\ ~props.amp
  /\ lastOp = [Op("lazyLoad") EXCEPT !.visible = TRUE]
  /\ state.loaded /\ state.primaryNotFound
  /\ seenVisible

\* C17: the mount check runs once, after the initial render has committed; it
\* sets primaryNotFound exactly when that render committed an <img> element
\* that reports complete = true and naturalWidth = 0, and otherwise leaves the
\* state as it was. Under SpecHost.
C17_MountCheck ==
  [][lastOp'.op = "componentDidMount" =>
       /\ phase = "rendered" /\ phase' = "mounted"
       /\ lastOp'.img.present = (tree.kind = "element" /\ ~props.amp /\ state.loaded)
       /\ state' = IF /\ lastOp'.img.present
                      /\ lastOp'.img.complete
                      /\ lastOp'.img.naturalWidth = 0
                   THEN [loaded |-> state.loaded, primaryNotFound |-> TRUE]
                   ELSE state]_vars

\* the mount check found a complete image of width 0 and set primaryNotFound
C17_Witness ==
  /\ lastOp.op = "componentDidMount"
  /\ lastOp.img = ImgElement(TRUE, 0)
  /\ phase = "mounted"
  /\ state.primaryNotFound

\* C18: with error events delivered only by a rendered <img>, primaryNotFound
\* implies loaded in every reachable state. Under SpecHost.
C18_NotFoundImpliesLoaded == state.primaryNotFound => state.loaded

\* a lazy instance loaded on a visibility event and then failed
C18_Witness ==
  /\ props.lazy /\ ~props.amp
  /\ seenVisible /\ state.loaded /\ state.primaryNotFound

\* C19: in AMP mode nothing sets primaryNotFound: neither an error event nor
\* a visibility event can be delivered, the state stays loaded = true,
\* primaryNotFound = false, and the rendered URL is never notFoundSrc.
\* Under SpecHost.
C19_AmpNeverNotFound ==
  props.amp =>
    /\ state = [loaded |-> TRUE, primaryNotFound |-> FALSE]
    /\ ~ENABLED HostErrorEvent
    /\ ~ENABLED HostVisibilityEvent
    /\ (tree.kind = "element" /\ Truthy(props.notFoundSrc)) =>
         tree.src # props.notFoundSrc.s

\* a mounted lazy AMP instance with a notFoundSrc shows its <amp-img>
C19_Witness ==
  /\ props.amp /\ props.lazy /\ Truthy(props.notFoundSrc)
  /\ phase = "mounted"
  /\ tree.kind = "element" /\ tree.ampImg

---------------------------------------------------------------------------
(* The options the component passes: claim C20, under Spec *)

\* C20: in the options getOptimizedSrc passes, quality is props.quality, also
\* when that is the default null and optimize has a quality of its own; the
\* object passed is a new one, so no render changes props.optimize.
C20_QualityPropWins ==
  /\ [](tree.kind \in {"element", "threw"} =>
          Get(optimizerOptions(props), K_quality) = props.quality)
  /\ [][props'.optimize = props.optimize]_vars

\* rendered with optimize.quality = 50 and the quality prop left at null
C20_Witness ==
  /\ tree.kind = "element"
  /\ Get(props.optimize, K_quality) = Num(50)
  /\ props.quality = Null

====
